---- MODULE Spec2Model ----
(***************************************************************************)
(* xpathextractor: render() and the two extraction methods it dispatches   *)
(* to, extract_xpath (one XPath selector per output column, columns        *)
(* zipped together per document) and extract_table (the n-th <table> of    *)
(* every page), as a state machine over one call of render().              *)
(*                                                                         *)
(* The markup parser and the XPath engine are external: a document is      *)
(* modelled by what the engine returns on it for each selector, and a page *)
(* by what pandas' table parser returns on it.  The rows of table["html"]  *)
(* are drawn when the loop reads them (iteritems), and kept in html.       *)
(***************************************************************************)
EXTENDS Integers, Sequences, FiniteSets, TLC

\* ---------------------------------------------------------------- bounds
MaxCols == 2        \* column specs in params["colselectors"]
MaxDocs == 2        \* rows of the input table
MaxLen == 2         \* items one selector matches in one document
MaxAnchors == 2     \* nodes the row selector matches in one document
MaxTables == 2      \* <table> tags found on one page
MaxRows == 1        \* rows of one <table>

\* ---------------------------------------------------------------- values
ColNames == {"", "X", "Y"}
CompilingXpaths == {".//p", ".//q"}
ColXpaths == {"", "totes not an xpath"} \cup CompilingXpaths
RowXpath == "//li"
PageColNames == {"A", "B"}

Range(s) == {s[i] : i \in 1..Len(s)}

SeqsUpTo(S, n) == UNION {[1..k -> S] : k \in 0..n}

Max(S) == CHOOSE m \in S : \A x \in S : x <= m

\* A cell of a DataFrame: a str, or null (None/NaN).  A str is a sequence of
\* tokens; the space is the token <<" ", 0>>.
Null == [isnull |-> TRUE, text |-> <<>>]
Str(text) == [isnull |-> FALSE, text |-> text]
Space == <<" ", 0>>

\* A DataFrame: ordered column names, and one equally long series per column.
DataFrame(columns, nrows, data) == [columns |-> columns, nrows |-> nrows, data |-> data]
NoTable == DataFrame(<<>>, 0, <<>>)

\* The name of an input row in extract_table's messages: the row's 'url'
\* value, or "input html row N".
Rowname(kind, n) == [kind |-> kind, n |-> n]
NoRowname == Rowname("", 0)

\* An i18n message: id and arguments (unused arguments are "", 0 and NoRowname).
I18nMessage(id, column_name, row, rowname, n_tables) ==
    [id |-> id, column_name |-> column_name, row |-> row,
     rowname |-> rowname, n_tables |-> n_tables]
Message(id, column_name, row) == I18nMessage(id, column_name, row, NoRowname, 0)
PageMessage(id, rowname, n_tables) == I18nMessage(id, "", 0, rowname, n_tables)
NoMessage == Message("", "", 0)

\* The placeholders of the default template given to i18n.trans with the
\* message id.
Placeholders(id) ==
    CASE id = "ColumnExtractionError.message" -> {"column_name", "error"}
      [] id = "badParam.colname.duplicate" -> {"column_name"}
      [] id = "badParam.colxpath.invalid" -> {"column_name", "error"}
      [] id = "warning.extractedDifferentLengths" -> {"row"}
      [] id = "error.noTable" -> {"rowname"}
      [] id = "error.noColumn" -> {"rowname"}
      [] id = "badParam.tableNum.tooBig" -> {"len_tables", "rowname"}
      [] OTHER -> {}

\* The keys of the arguments given to i18n.trans with the message id.
Arguments(id) ==
    CASE id = "ColumnExtractionError.message" -> {"column_name", "error"}
      [] id = "badParam.colname.duplicate" -> {"column_name"}
      [] id = "badParam.colxpath.invalid" -> {"column_name", "error"}
      [] id = "warning.extractedDifferentLengths" -> {"row"}
      [] id = "error.noTable" -> {"rowname"}
      [] id = "error.noColumn" -> {"rowname"}
      [] id = "badParam.tableNum.tooBig" -> {"n_tables", "rowname"}
      [] OTHER -> {}

\* ------------------------------------------------------------- documents
\* What the XPath engine returns for one selector on one document: an
\* XPathEvalError, or the matched items in document order.  Each item is
\* modelled by the row anchor it lies under (0: under none).
EvalResults(rows) ==
    {[error |-> TRUE, items |-> <<>>]} \cup
    {[error |-> FALSE, items |-> it] :
        it \in {s \in SeqsUpTo(0..rows, MaxLen) :
                    /\ \A j \in 1..Len(s) : (rows > 0) => s[j] > 0
                    /\ \A j \in 1..(Len(s) - 1) : s[j] <= s[j + 1]}}

NoPage == [outcome |-> "", ntables |-> 0, columns |-> <<>>, nrows |-> 0]
NoSel == [s \in CompilingXpaths |-> [error |-> FALSE, items |-> <<>>]]

NoneDoc == [null |-> TRUE, rows |-> 0, sel |-> NoSel, page |-> NoPage]

\* Documents on which the row selector matches nothing.
PlainDocs ==
    {[null |-> FALSE, rows |-> 0, sel |-> f, page |-> NoPage] :
        f \in [CompilingXpaths -> EvalResults(0)]}

\* Documents on which the row selector matches rows >= 1 anchors, every
\* item of a column selector lying under one of them.
RecordDocs ==
    UNION {{[null |-> FALSE, rows |-> r, sel |-> f, page |-> NoPage] :
                f \in [CompilingXpaths -> EvalResults(r)]} : r \in 1..MaxAnchors}

XpathDocs(rowxpath) ==
    {NoneDoc} \cup (IF rowxpath = "" THEN PlainDocs ELSE PlainDocs \cup RecordDocs)

\* What pd.io.html._parse returns on one page: a ValueError, an IndexError,
\* or ntables tables; columns and nrows are those of tables[tablenum] after
\* merge_colspan_headers_in_place (distinct names), when there is one.
PageColumns ==
    {s \in SeqsUpTo(PageColNames, Cardinality(PageColNames)) :
        s # <<>> /\ \A i, j \in 1..Len(s) : s[i] = s[j] => i = j}

Pages(tablenum) ==
    {[outcome |-> o, ntables |-> 0, columns |-> <<>>, nrows |-> 0] :
        o \in {"ValueError", "IndexError"}} \cup
    {[outcome |-> "tables", ntables |-> n, columns |-> <<>>, nrows |-> 0] :
        n \in {m \in 0..MaxTables : tablenum >= m}} \cup
    {[outcome |-> "tables", ntables |-> n, columns |-> c, nrows |-> r] :
        n \in {m \in 0..MaxTables : tablenum < m}, c \in PageColumns, r \in 0..MaxRows}

TableDocs(tablenum) ==
    {NoneDoc} \cup
    {[null |-> FALSE, rows |-> 0, sel |-> NoSel, page |-> p] : p \in Pages(tablenum)}

\* ---------------------------------------------------------------- state
VARIABLES
    table,                  \* input DataFrame: [has_html, has_url, nrows]
    params,                 \* [method, rowxpath, colselectors, tablenum]
    html,                   \* rows of table["html"] read so far
    pc,                     \* where render() is
    columns_to_parse,       \* extract_xpath: <<[colname, selector]>>, in order
    result_tables,          \* per-document tables so far
    warn,                   \* extract_xpath: should_warn of the last document
    input_row_with_warning, \* extract_xpath: -1 (None) or the index
    first_warning,          \* extract_table: NoMessage (None) or the message
    result,                 \* what render() returns
    parsed,                 \* indexes of the rows given to parse_document
    run,                    \* 1: first call of render(); 2: the call repeated
    previous,               \* the rows read and the result of the first call
    migration,              \* a call of migrate_params: [pc, given, heap, returned]
    one_result,             \* extract_table: what the last page gave
    call                    \* a call of one of the helper functions: [fn, pc, arg, ret]

vars == <<table, params, html, pc, columns_to_parse, result_tables, warn,
          input_row_with_warning, first_warning, result, parsed, run, previous,
          migration, one_result, call>>

NoResult == [kind |-> "", table |-> NoTable, message |-> NoMessage, quickFixes |-> <<>>]
NoPrevious == [html |-> <<>>, result |-> NoResult]

\* What extract_table_from_one_page returns: an I18nMessage or a table.
PageResult(is_message, message, t) == [is_message |-> is_message, message |-> message, table |-> t]
NoOneResult == PageResult(FALSE, NoMessage, NoTable)

ColSelectors ==
    SeqsUpTo([colname : ColNames, colxpath : ColXpaths], MaxCols)

\* No helper function is being called on its own.
NoCall == [fn |-> "", pc |-> "NotCalled", arg |-> <<>>, ret |-> <<>>]

\* migrate_params is not being called.
NoMigration == [pc |-> "NotCalled", given |-> <<>>, heap |-> <<>>, returned |-> 0]

InitWith(rowxpaths) ==
    /\ table \in [has_html : BOOLEAN, has_url : BOOLEAN, nrows : 0..MaxDocs]
    /\ params \in [method : {"xpath"}, rowxpath : rowxpaths,
                   colselectors : ColSelectors, tablenum : {1}]
               \cup [method : {"table"}, rowxpath : rowxpaths,
                     colselectors : {<<>>}, tablenum : (-1)..(MaxTables + 1)]
    /\ migration = NoMigration
    /\ one_result = NoOneResult
    /\ call = NoCall
    /\ html = <<>>
    /\ pc = "Idle"
    /\ columns_to_parse = <<>>
    /\ result_tables = <<>>
    /\ warn = FALSE
    /\ input_row_with_warning = -1
    /\ first_warning = NoMessage
    /\ result = NoResult
    /\ parsed = {}
    /\ run = 1
    /\ previous = NoPrevious

Init == InitWith({""})

\* table["html"].iteritems(): the row at index.  The column is drawn as it is
\* read by the first call; a repeated call is given the same table.
Iteritems(docs, index) ==
    IF run = 1 THEN docs ELSE {previous.html[index + 1]}

\* ------------------------------------------------------------ extract_xpath
\* xpath(s) raises XPathSyntaxError
XPathSyntaxError(s) == s \notin CompilingXpaths

\* ColumnCheck without the test `colname in columns_to_parse`.
ColumnCheck_NoDuplicateTest(c, accepted) ==
    IF c.colname = ""
    THEN Message("badParam.colname.missing", "", 0)
    ELSE IF c.colxpath = ""
    THEN Message("badParam.colxpath.missing", "", 0)
    ELSE IF XPathSyntaxError(c.colxpath)
    THEN Message("badParam.colxpath.invalid", c.colname, 0)
    ELSE NoMessage

\* ColumnCheck looking at the selector before the name.
ColumnCheck_SelectorFirst(c, accepted) ==
    IF c.colxpath = ""
    THEN Message("badParam.colxpath.missing", "", 0)
    ELSE IF XPathSyntaxError(c.colxpath)
    THEN Message("badParam.colxpath.invalid", c.colname, 0)
    ELSE IF c.colname = ""
    THEN Message("badParam.colname.missing", "", 0)
    ELSE IF \E i \in 1..Len(accepted) : accepted[i].colname = c.colname
    THEN Message("badParam.colname.duplicate", c.colname, 0)
    ELSE NoMessage

\* One iteration of the loop over params["colselectors"]: the message the
\* iteration returns, or NoMessage when the column is accepted.
ColumnCheck(c, accepted) ==
    IF c.colname = ""
    THEN Message("badParam.colname.missing", "", 0)
    ELSE IF \E i \in 1..Len(accepted) : accepted[i].colname = c.colname
    THEN Message("badParam.colname.duplicate", c.colname, 0)
    ELSE IF c.colxpath = ""
    THEN Message("badParam.colxpath.missing", "", 0)
    ELSE IF XPathSyntaxError(c.colxpath)
    THEN Message("badParam.colxpath.invalid", c.colname, 0)
    ELSE NoMessage

\* select(tree, selector): the strings of the matched items, in order.
ItemToString(selector, j) == Str(<< <<selector, j>> >>)

Select(doc, selector) ==
    [j \in 1..Len(doc.sel[selector].items) |-> ItemToString(selector, j)]

\* pd.DataFrame(data): every series padded with null to the longest.
Pad(series, n) == [i \in 1..n |-> IF i <= Len(series) THEN series[i] ELSE Null]

\* DataFrameOfSeries cut to the shortest series, as zip() would.
DataFrameOfSeries_Shortest(names, series) ==
    LET lens == {Len(series[c]) : c \in Range(names)}
        n == CHOOSE m \in lens : \A x \in lens : m <= x
    IN DataFrame(names, n, [c \in Range(names) |-> SubSeq(series[c], 1, n)])

DataFrameOfSeries(names, series) ==
    LET n == Max({0} \cup {Len(series[c]) : c \in Range(names)})
    IN DataFrame(names, n, [c \in Range(names) |-> Pad(series[c], n)])

\* ShouldWarn looking at the first row, table.iloc[0].
ShouldWarn_FirstRow(t) ==
    t.nrows > 0 /\ \E c \in Range(t.columns) : t.data[c][1].isnull

\* should_warn = len(table) and table.iloc[-1].isnull().any()
ShouldWarn(t) ==
    t.nrows > 0 /\ \E c \in Range(t.columns) : t.data[c][t.nrows].isnull

\* ExtractDataframeByZip with the XPathEvalError swallowed: the column is empty.
ExtractDataframeByZip_Swallow(doc, columns) ==
    LET names == [k \in 1..Len(columns) |-> columns[k].colname]
        selectorOf(c) ==
            columns[CHOOSE k \in 1..Len(columns) : columns[k].colname = c].selector
        series == [c \in Range(names) |-> Select(doc, selectorOf(c))]
        t == DataFrameOfSeries(names, series)
    IN [error |-> FALSE, column_name |-> "", table |-> t, warn |-> ShouldWarn(t)]

\* extract_dataframe_by_zip(html, columns_to_parse): the first column whose
\* selector raises gives ColumnExtractionError; else (table, should_warn).
ExtractDataframeByZip(doc, columns) ==
    LET names == [k \in 1..Len(columns) |-> columns[k].colname]
        raising == {k \in 1..Len(columns) : doc.sel[columns[k].selector].error}
        selectorOf(c) ==
            columns[CHOOSE k \in 1..Len(columns) : columns[k].colname = c].selector
        series == [c \in Range(names) |-> Select(doc, selectorOf(c))]
        t == DataFrameOfSeries(names, series)
    IN IF raising # {}
       THEN [error |-> TRUE,
             column_name |-> columns[CHOOSE k \in raising : \A m \in raising : k <= m].colname,
             table |-> NoTable, warn |-> FALSE]
       ELSE [error |-> FALSE, column_name |-> "", table |-> t, warn |-> ShouldWarn(t)]

\* ConcatColumns keeping the columns every table has (join="inner").
ConcatColumns_Inner(tables) ==
    IF tables = <<>> THEN <<>>
    ELSE SelectSeq(tables[1].columns,
                   LAMBDA c : \A k \in 1..Len(tables) : c \in Range(tables[k].columns))

\* pd.concat(tables, ignore_index=True, sort=False): the union of the
\* columns in order of first appearance, the rows of each table in turn,
\* null where a table lacks the column.
RECURSIVE ConcatColumns(_)
ConcatColumns(tables) ==
    IF tables = <<>> THEN <<>>
    ELSE LET before == ConcatColumns(SubSeq(tables, 1, Len(tables) - 1))
             last == tables[Len(tables)].columns
         IN before \o SelectSeq(last, LAMBDA c : c \notin Range(before))

\* ConcatSeries putting the rows of a later table before those of an earlier.
RECURSIVE ConcatSeries_LaterFirst(_, _)
ConcatSeries_LaterFirst(tables, c) ==
    IF tables = <<>> THEN <<>>
    ELSE LET t == tables[Len(tables)]
         IN (IF c \in Range(t.columns) THEN t.data[c] ELSE [i \in 1..t.nrows |-> Null]) \o
            ConcatSeries_LaterFirst(SubSeq(tables, 1, Len(tables) - 1), c)

RECURSIVE ConcatSeries(_, _)
ConcatSeries(tables, c) ==
    IF tables = <<>> THEN <<>>
    ELSE LET t == tables[Len(tables)]
         IN ConcatSeries(SubSeq(tables, 1, Len(tables) - 1), c) \o
            (IF c \in Range(t.columns) THEN t.data[c] ELSE [i \in 1..t.nrows |-> Null])

RECURSIVE SumRows(_)
SumRows(tables) ==
    IF tables = <<>> THEN 0
    ELSE SumRows(SubSeq(tables, 1, Len(tables) - 1)) + tables[Len(tables)].nrows

Concat(tables) ==
    LET columns == ConcatColumns(tables)
    IN DataFrame(columns, SumRows(tables),
                 [c \in Range(columns) |-> ConcatSeries(tables, c)])

\* EmptyFrame as pd.DataFrame(), without the columns.
EmptyFrame_NoColumns(columns) == NoTable

\* pd.DataFrame({colname: [] for colname in columns_to_parse.keys()}, dtype=str)
EmptyFrame(columns) ==
    LET names == [k \in 1..Len(columns) |-> columns[k].colname]
    IN DataFrame(names, 0, [c \in Range(names) |-> <<>>])

\* IsSkipped without the test.
IsSkipped_Never(doc) == FALSE

\* if html is None: continue
IsSkipped(doc) == doc.null

\* NextRowWithWarning without `and input_row_with_warning is None`.
NextRowWithWarning_Latest(current, should_warn, index) ==
    IF should_warn THEN index ELSE current

\* if warn and input_row_with_warning is None: input_row_with_warning = index
NextRowWithWarning(current, should_warn, index) ==
    IF should_warn /\ current = -1 THEN index ELSE current

\* The quick fix render() suggests: prepend the module 'urlscraper'.
QuickFixes ==
    << [text |-> "error.noHtml.quick_fix.text", action |-> "prependModule",
        args |-> [module |-> "urlscraper", params |-> <<>>]] >>

\* RenderNoHtml returning the message alone.
RenderNoHtml_NoQuickFix ==
    /\ pc = "Idle"
    /\ ~table.has_html
    /\ pc' = "NoHtml"
    /\ result' = [kind |-> "message", table |-> NoTable,
                  message |-> Message("error.noHtml.error", "", 0), quickFixes |-> <<>>]
    /\ UNCHANGED <<call, one_result, migration, run, previous, table, params, html, columns_to_parse, result_tables,
                   warn, input_row_with_warning, first_warning, parsed>>

\* render(): the 'html' column is missing
RenderNoHtml ==
    /\ pc = "Idle"
    /\ ~table.has_html
    /\ pc' = "NoHtml"
    /\ result' = [kind |-> "quickfix", table |-> NoTable,
                  message |-> Message("error.noHtml.error", "", 0), quickFixes |-> QuickFixes]
    /\ UNCHANGED <<call, one_result, migration, run, previous, table, params, html, columns_to_parse, result_tables,
                   warn, input_row_with_warning, first_warning, parsed>>

\* RenderXpath entered before the test of the 'html' column.
RenderXpath_BeforeHtmlTest ==
    /\ pc = "Idle"
    /\ params.method = "xpath"
    /\ pc' = "ValidatingColumns"
    /\ UNCHANGED <<call, one_result, migration, run, previous, table, params, html, columns_to_parse, result_tables,
                   warn, input_row_with_warning, first_warning, result, parsed>>

\* render(): method == "xpath", extract_xpath is entered
RenderXpath ==
    /\ pc = "Idle"
    /\ table.has_html
    /\ params.method = "xpath"
    /\ pc' = "ValidatingColumns"
    /\ UNCHANGED <<call, one_result, migration, run, previous, table, params, html, columns_to_parse, result_tables,
                   warn, input_row_with_warning, first_warning, result, parsed>>

\* extract_xpath: one iteration of the loop over params["colselectors"]
ValidateColumn ==
    /\ pc = "ValidatingColumns"
    /\ Len(columns_to_parse) < Len(params.colselectors)
    /\ LET c == params.colselectors[Len(columns_to_parse) + 1]
           m == ColumnCheck(c, columns_to_parse)
       IN IF m # NoMessage
          THEN /\ pc' = "ConfigError"
               /\ result' = [kind |-> "message", table |-> NoTable, message |-> m, quickFixes |-> <<>>]
               /\ UNCHANGED columns_to_parse
          ELSE /\ columns_to_parse' =
                      Append(columns_to_parse,
                             [colname |-> c.colname, selector |-> c.colxpath])
               /\ UNCHANGED <<pc, result>>
    /\ UNCHANGED <<call, one_result, migration, run, previous, table, params, html, result_tables, warn, input_row_with_warning,
                   first_warning, parsed>>

\* The input table as a DataFrame: its columns ('url' when it has one, and
\* 'html'), its rows, the cell of column c in row r being whatever the input
\* holds there.
InputColumns(t) ==
    (IF t.has_url THEN <<"url">> ELSE <<>>) \o (IF t.has_html THEN <<"html">> ELSE <<>>)

InputFrame(t) ==
    DataFrame(InputColumns(t), t.nrows,
              [c \in Range(InputColumns(t)) |-> [r \in 1..t.nrows |-> Str(<< <<c, r>> >>)]])

\* ValidationDone without the test `if not columns_to_parse`.
ValidationDone_NoEmptyTest ==
    /\ pc = "ValidatingColumns"
    /\ Len(columns_to_parse) = Len(params.colselectors)
    /\ pc' = "PerDocumentLoop"
    /\ UNCHANGED result
    /\ UNCHANGED <<call, one_result, migration, run, previous, table, params, html, columns_to_parse, result_tables,
                   warn, input_row_with_warning, first_warning, parsed>>

\* ValidationDone leaving the loop over the column specs after its first
\* iteration.
ValidationDone_AfterFirst ==
    /\ pc = "ValidatingColumns"
    /\ Len(columns_to_parse) >= 1 \/ params.colselectors = <<>>
    /\ IF columns_to_parse = <<>>
       THEN /\ pc' = "ReturnedInput"
            /\ result' = [kind |-> "input", table |-> InputFrame(table),
                          message |-> NoMessage, quickFixes |-> <<>>]
       ELSE /\ pc' = "PerDocumentLoop"
            /\ UNCHANGED result
    /\ UNCHANGED <<call, one_result, migration, run, previous, table, params, html, columns_to_parse, result_tables,
                   warn, input_row_with_warning, first_warning, parsed>>

\* extract_xpath: the loop over the column specs is over
ValidationDone ==
    /\ pc = "ValidatingColumns"
    /\ Len(columns_to_parse) = Len(params.colselectors)
    /\ IF columns_to_parse = <<>>
       THEN /\ pc' = "ReturnedInput"
            /\ result' = [kind |-> "input", table |-> InputFrame(table),
                          message |-> NoMessage, quickFixes |-> <<>>]
       ELSE /\ pc' = "PerDocumentLoop"
            /\ UNCHANGED result
    /\ UNCHANGED <<call, one_result, migration, run, previous, table, params, html, columns_to_parse, result_tables,
                   warn, input_row_with_warning, first_warning, parsed>>

\* extract_xpath: one iteration of the loop over table["html"]
ProcessDocument ==
    /\ pc = "PerDocumentLoop"
    /\ Len(html) < table.nrows
    /\ \E doc \in Iteritems(XpathDocs(params.rowxpath), Len(html)) :
        LET index == Len(html)
            one == ExtractDataframeByZip(doc, columns_to_parse)
        IN /\ html' = Append(html, doc)
           /\ IF IsSkipped(doc)
              THEN UNCHANGED <<pc, result, result_tables, warn,
                               input_row_with_warning, parsed>>
              ELSE /\ parsed' = parsed \cup {index}
                   /\ IF one.error
                      THEN /\ pc' = "ColumnExtractionAborted"
                           /\ result' = [kind |-> "message", table |-> NoTable,
                                         message |-> Message("ColumnExtractionError.message",
                                                             one.column_name, 0), quickFixes |-> <<>>]
                           /\ UNCHANGED <<result_tables, warn, input_row_with_warning>>
                      ELSE /\ result_tables' = Append(result_tables, one.table)
                           /\ warn' = one.warn
                           /\ input_row_with_warning' =
                                  NextRowWithWarning(input_row_with_warning, one.warn, index)
                           /\ UNCHANGED <<pc, result>>
    /\ UNCHANGED <<call, one_result, migration, run, previous, table, params, columns_to_parse, first_warning>>

\* extract_xpath: after the loop over table["html"]
Aggregate ==
    /\ pc = "PerDocumentLoop"
    /\ Len(html) = table.nrows
    /\ pc' = "Aggregated"
    /\ LET outtable == IF result_tables # <<>> THEN Concat(result_tables)
                       ELSE EmptyFrame(columns_to_parse)
       IN result' =
            IF input_row_with_warning # -1
            THEN [kind |-> "table+message", table |-> outtable,
                  message |-> Message("warning.extractedDifferentLengths", "",
                                      input_row_with_warning + 1), quickFixes |-> <<>>]
            ELSE [kind |-> "table", table |-> outtable, message |-> NoMessage, quickFixes |-> <<>>]
    /\ UNCHANGED <<call, one_result, migration, run, previous, table, params, html, columns_to_parse, result_tables,
                   warn, input_row_with_warning, first_warning, parsed>>

\* ------------------------------------------------------------ extract_table
\* The cell in column c, row r of tables[k] of the page.
PageCell(k, c, r) == Str(<< <<c, r, k>> >>)

\* ExtractTableFromOnePage taking tablenum as the greatest index there is.
ExtractTableFromOnePage_OneBased(doc, tablenum, rowname) ==
    LET page == doc.page
        error_no_table == PageMessage("error.noTable", rowname, 0)
        isTable(t) == PageResult(FALSE, NoMessage, t)
        isMessage(m) == PageResult(TRUE, m, NoTable)
    IN IF page.outcome = "ValueError" THEN isMessage(error_no_table)
       ELSE IF page.outcome = "IndexError"
       THEN isMessage(PageMessage("error.noColumn", rowname, 0))
       ELSE IF page.ntables = 0 THEN isMessage(error_no_table)
       ELSE IF tablenum + 1 >= page.ntables
       THEN isMessage(PageMessage("badParam.tableNum.tooBig", rowname, page.ntables))
       ELSE isTable(DataFrame(page.columns, page.nrows,
                              [c \in Range(page.columns) |->
                                  [r \in 1..page.nrows |-> PageCell(tablenum, c, r)]]))

\* extract_table_from_one_page(html, tablenum, rowname): a message, or the
\* page's table number tablenum (0-based).
ExtractTableFromOnePage(doc, tablenum, rowname) ==
    LET page == doc.page
        error_no_table == PageMessage("error.noTable", rowname, 0)
        isTable(t) == PageResult(FALSE, NoMessage, t)
        isMessage(m) == PageResult(TRUE, m, NoTable)
    IN IF page.outcome = "ValueError" THEN isMessage(error_no_table)
       ELSE IF page.outcome = "IndexError"
       THEN isMessage(PageMessage("error.noColumn", rowname, 0))
       ELSE IF page.ntables = 0 THEN isMessage(error_no_table)
       ELSE IF tablenum >= page.ntables
       THEN isMessage(PageMessage("badParam.tableNum.tooBig", rowname, page.ntables))
       ELSE isTable(DataFrame(page.columns, page.nrows,
                              [c \in Range(page.columns) |->
                                  [r \in 1..page.nrows |-> PageCell(tablenum, c, r)]]))

\* RownameOf with str(index) for str(index + 1).
RownameOf_ZeroBased(has_url, index) ==
    IF has_url THEN Rowname("url", index) ELSE Rowname("input html row", index)

\* The name extract_table gives the input row at index.
RownameOf(has_url, index) ==
    IF has_url THEN Rowname("url", index) ELSE Rowname("input html row", index + 1)

\* RenderTable without the test `tablenum < 0`.
RenderTable_NoCheck ==
    /\ pc = "Idle"
    /\ table.has_html
    /\ params.method # "xpath"
    /\ IF FALSE
       THEN /\ pc' = "TablenumError"
            /\ result' = [kind |-> "message", table |-> NoTable,
                          message |-> Message("badParam.tablenum.negative", "", 0), quickFixes |-> <<>>]
       ELSE /\ pc' = "PerPageLoop"
            /\ UNCHANGED result
    /\ UNCHANGED <<call, one_result, migration, run, previous, table, params, html, columns_to_parse, result_tables,
                   warn, input_row_with_warning, first_warning, parsed>>

\* render(): method is not "xpath", extract_table is entered
RenderTable ==
    /\ pc = "Idle"
    /\ table.has_html
    /\ params.method # "xpath"
    /\ IF params.tablenum - 1 < 0
       THEN /\ pc' = "TablenumError"
            /\ result' = [kind |-> "message", table |-> NoTable,
                          message |-> Message("badParam.tablenum.negative", "", 0), quickFixes |-> <<>>]
       ELSE /\ pc' = "PerPageLoop"
            /\ UNCHANGED result
    /\ UNCHANGED <<call, one_result, migration, run, previous, table, params, html, columns_to_parse, result_tables,
                   warn, input_row_with_warning, first_warning, parsed>>

\* ProcessPage without the test `if not first_warning`.
ProcessPage_LatestWarning ==
    /\ pc = "PerPageLoop"
    /\ Len(html) < table.nrows
    /\ \E doc \in Iteritems(TableDocs(params.tablenum - 1), Len(html)) :
        LET index == Len(html)
            one == ExtractTableFromOnePage(doc, params.tablenum - 1,
                                           RownameOf(table.has_url, index))
        IN /\ html' = Append(html, doc)
           /\ IF IsSkipped(doc)
              THEN UNCHANGED <<one_result, result_tables, first_warning, parsed>>
              ELSE /\ parsed' = parsed \cup {index}
                   /\ one_result' = one
                   /\ IF one.is_message
                      THEN /\ first_warning' = one.message
                           /\ UNCHANGED result_tables
                      ELSE /\ result_tables' = Append(result_tables, one.table)
                           /\ UNCHANGED first_warning
    /\ UNCHANGED <<call, migration, run, previous, table, params, pc, columns_to_parse,
                   warn, input_row_with_warning, result>>

\* extract_table: one iteration of the loop over table["html"]
ProcessPage ==
    /\ pc = "PerPageLoop"
    /\ Len(html) < table.nrows
    /\ \E doc \in Iteritems(TableDocs(params.tablenum - 1), Len(html)) :
        LET index == Len(html)
            one == ExtractTableFromOnePage(doc, params.tablenum - 1,
                                           RownameOf(table.has_url, index))
        IN /\ html' = Append(html, doc)
           /\ IF IsSkipped(doc)
              THEN UNCHANGED <<one_result, result_tables, first_warning, parsed>>
              ELSE /\ parsed' = parsed \cup {index}
                   /\ one_result' = one
                   /\ IF one.is_message
                      THEN /\ first_warning' =
                                  IF first_warning = NoMessage
                                  THEN one.message ELSE first_warning
                           /\ UNCHANGED result_tables
                      ELSE /\ result_tables' = Append(result_tables, one.table)
                           /\ UNCHANGED first_warning
    /\ UNCHANGED <<call, migration, run, previous, table, params, pc, columns_to_parse,
                   warn, input_row_with_warning, result>>

\* extract_table: after the loop over table["html"]
AggregateTable ==
    /\ pc = "PerPageLoop"
    /\ Len(html) = table.nrows
    /\ pc' = "TableDone"
    /\ result' =
         IF result_tables # <<>>
         THEN IF first_warning # NoMessage
              THEN [kind |-> "table+message", table |-> Concat(result_tables),
                    message |-> first_warning, quickFixes |-> <<>>]
              ELSE [kind |-> "table", table |-> Concat(result_tables),
                    message |-> NoMessage, quickFixes |-> <<>>]
         ELSE IF first_warning # NoMessage
              THEN [kind |-> "message", table |-> NoTable, message |-> first_warning, quickFixes |-> <<>>]
              ELSE [kind |-> "table", table |-> NoTable, message |-> NoMessage, quickFixes |-> <<>>]
    /\ UNCHANGED <<call, one_result, migration, run, previous, table, params, html, columns_to_parse, result_tables,
                   warn, input_row_with_warning, first_warning, parsed>>

Next ==
    \/ RenderNoHtml
    \/ RenderXpath
    \/ RenderTable
    \/ ValidateColumn
    \/ ValidationDone
    \/ ProcessDocument
    \/ Aggregate
    \/ ProcessPage
    \/ AggregateTable

Spec == Init /\ [][Next]_vars

\* render() is sequential code: it runs on until it returns.
FairSpec == Spec /\ WF_vars(Next)

\* The same call with a row selector in params["rowxpath"].
InitRecord == InitWith({RowXpath})
SpecRecord == InitRecord /\ [][Next]_vars

\* ------------------------------------------------------------ render, twice
Returned ==
    pc \in {"NoHtml", "ConfigError", "ReturnedInput", "Aggregated",
            "ColumnExtractionAborted", "TablenumError", "TableDone"}

\* Rerun with result_tables living on from the first call.
Rerun_KeepResultTables ==
    /\ run = 1
    /\ Returned
    /\ run' = 2
    /\ previous' = [html |-> html, result |-> result]
    /\ pc' = "Idle"
    /\ html' = <<>>
    /\ columns_to_parse' = <<>>
    /\ warn' = FALSE
    /\ input_row_with_warning' = -1
    /\ first_warning' = NoMessage
    /\ result' = NoResult
    /\ parsed' = {}
    /\ one_result' = NoOneResult
    /\ UNCHANGED <<call, migration, table, params, result_tables>>

\* render() is called again with the same table and params: its locals
\* (columns_to_parse, result_tables, input_row_with_warning, first_warning)
\* are created anew by the call.
Rerun ==
    /\ run = 1
    /\ Returned
    /\ run' = 2
    /\ previous' = [html |-> html, result |-> result]
    /\ pc' = "Idle"
    /\ html' = <<>>
    /\ columns_to_parse' = <<>>
    /\ result_tables' = <<>>
    /\ warn' = FALSE
    /\ input_row_with_warning' = -1
    /\ first_warning' = NoMessage
    /\ result' = NoResult
    /\ parsed' = {}
    /\ one_result' = NoOneResult
    /\ UNCHANGED <<call, migration, table, params>>

NextTwice == Next \/ Rerun

SpecTwice == Init /\ [][NextTwice]_vars

\* ------------------------------------------------------------ migrate_params
\* A params dict: a function from the keys it has to their values.  Objects
\* live in migration.heap, an object's identity being its index; the caller's
\* dict is object 1.
ParamsKeys == {"method", "tablenum", "first_row_is_header", "colselectors"}

ParamsDict(keys, method, tablenum, first_row_is_header, colselectors) ==
    [k \in keys |->
        CASE k = "method" -> method
          [] k = "tablenum" -> tablenum
          [] k = "first_row_is_header" -> first_row_is_header
          [] OTHER -> colselectors]

\* MigrateV0ToV1 as {"method": "xpath", "tablenum": 1, **params}.
MigrateV0ToV1_ParamsWin(p) ==
    [k \in DOMAIN p \cup {"method", "tablenum"} |->
        IF k \in DOMAIN p THEN p[k]
        ELSE IF k = "method" THEN "xpath" ELSE 1]

\* _migrate_v0_to_v1: {**params, "method": "xpath", "tablenum": 1}, a new dict
MigrateV0ToV1(p) ==
    [k \in DOMAIN p \cup {"method", "tablenum"} |->
        IF k = "method" THEN "xpath"
        ELSE IF k = "tablenum" THEN 1
        ELSE p[k]]

\* dict.pop(key, None), on the dict itself
Pop(p, key) == [k \in DOMAIN p \ {key} |-> p[k]]

\* migrate_params(params), params being object 1
MigrateParams ==
    /\ migration.pc = "Called"
    /\ LET heap == migration.heap
           v0 == "method" \notin DOMAIN heap[1]
           migrated == IF v0 THEN Append(heap, MigrateV0ToV1(heap[1])) ELSE heap
           p == IF v0 THEN Len(migrated) ELSE 1
       IN migration' =
            [pc |-> "Returned", given |-> migration.given,
             heap |-> [migrated EXCEPT ![p] = Pop(@, "first_row_is_header")],
             returned |-> p]
    /\ UNCHANGED <<table, params, html, pc, columns_to_parse, result_tables, warn,
                   input_row_with_warning, first_warning, result, parsed, run, previous,
                   one_result, call>>

InitMigrate ==
    /\ \E keys \in SUBSET ParamsKeys, method \in {"xpath", "table"},
          tablenum \in 1..(MaxTables + 1), first_row_is_header \in BOOLEAN,
          colselectors \in SeqsUpTo([colname : {"X"}, colxpath : CompilingXpaths], 1) :
        LET p == ParamsDict(keys, method, tablenum, first_row_is_header, colselectors)
        IN migration = [pc |-> "Called", given |-> p, heap |-> <<p>>, returned |-> 0]
    /\ table = [has_html |-> TRUE, has_url |-> FALSE, nrows |-> 0]
    /\ params = [method |-> "xpath", rowxpath |-> "", colselectors |-> <<>>, tablenum |-> 1]
    /\ html = <<>>
    /\ pc = "Idle"
    /\ columns_to_parse = <<>>
    /\ result_tables = <<>>
    /\ warn = FALSE
    /\ input_row_with_warning = -1
    /\ first_warning = NoMessage
    /\ result = NoResult
    /\ parsed = {}
    /\ run = 1
    /\ previous = NoPrevious
    /\ one_result = NoOneResult
    /\ call = NoCall

NextMigrate == MigrateParams

SpecMigrate == InitMigrate /\ [][NextMigrate]_vars

\* MigrateParamsAgain without the test `if "method" not in params`.
MigrateParamsAgain_NoMethodTest ==
    /\ migration.pc = "Returned"
    /\ LET heap == migration.heap
           arg == migration.returned
           v0 == TRUE
           migrated == IF v0 THEN Append(heap, MigrateV0ToV1(heap[arg])) ELSE heap
           p == IF v0 THEN Len(migrated) ELSE arg
           popped == [migrated EXCEPT ![p] = Pop(@, "first_row_is_header")]
       IN /\ migration' = [pc |-> "ReturnedAgain", given |-> migration.given,
                           heap |-> popped, returned |-> p]
          /\ call' = [fn |-> "migrate_params", pc |-> "Returned",
                      arg |-> heap[arg], ret |-> popped[p]]
    /\ UNCHANGED <<table, params, html, pc, columns_to_parse, result_tables, warn,
                   input_row_with_warning, first_warning, result, parsed, run, previous,
                   one_result>>

\* migrate_params(migrate_params(params)): the second call, on the object the
\* first returned; call records the contents of its argument as it is given
\* and of what it returns.
MigrateParamsAgain ==
    /\ migration.pc = "Returned"
    /\ LET heap == migration.heap
           arg == migration.returned
           v0 == "method" \notin DOMAIN heap[arg]
           migrated == IF v0 THEN Append(heap, MigrateV0ToV1(heap[arg])) ELSE heap
           p == IF v0 THEN Len(migrated) ELSE arg
           popped == [migrated EXCEPT ![p] = Pop(@, "first_row_is_header")]
       IN /\ migration' = [pc |-> "ReturnedAgain", given |-> migration.given,
                           heap |-> popped, returned |-> p]
          /\ call' = [fn |-> "migrate_params", pc |-> "Returned",
                      arg |-> heap[arg], ret |-> popped[p]]
    /\ UNCHANGED <<table, params, html, pc, columns_to_parse, result_tables, warn,
                   input_row_with_warning, first_warning, result, parsed, run, previous,
                   one_result>>

NextMigrateTwice == MigrateParams \/ MigrateParamsAgain

SpecMigrateTwice == InitMigrate /\ [][NextMigrateTwice]_vars

\* ------------------------------------------------------- helper functions
\* The helper functions of the module, each called on its own: call.arg is
\* the argument, call.ret what the function returned.
NotRendering ==
    /\ table = [has_html |-> TRUE, has_url |-> FALSE, nrows |-> 0]
    /\ params = [method |-> "xpath", rowxpath |-> "", colselectors |-> <<>>, tablenum |-> 1]
    /\ html = <<>>
    /\ pc = "Idle"
    /\ columns_to_parse = <<>>
    /\ result_tables = <<>>
    /\ warn = FALSE
    /\ input_row_with_warning = -1
    /\ first_warning = NoMessage
    /\ result = NoResult
    /\ parsed = {}
    /\ run = 1
    /\ previous = NoPrevious
    /\ one_result = NoOneResult
    /\ migration = NoMigration

Called(fn, arg) == [fn |-> fn, pc |-> "Called", arg |-> arg, ret |-> <<>>]

Returns(fn, ret) ==
    /\ call.fn = fn
    /\ call.pc = "Called"
    /\ call' = [fn |-> fn, pc |-> "Returned", arg |-> call.arg, ret |-> ret]
    /\ UNCHANGED <<table, params, html, pc, columns_to_parse, result_tables, warn,
                   input_row_with_warning, first_warning, result, parsed, run, previous,
                   migration, one_result>>

RECURSIVE Chain(_)
Chain(seqs) == IF seqs = <<>> THEN <<>> ELSE seqs[1] \o Chain(Tail(seqs))

\* ---------------------------------------------------------- _item_to_string
\* A str is the sequence of its characters.  html5lib's spaceCharacters are
\* tab, LF, FF, space and CR; the texts here have the space and the LF.
MaxChildren == 2    \* child nodes of an element

spaceCharacters == {" ", "\n"}

Texts ==
    {<<"a">>, <<" ", "a">>, <<"a", "\n">>, <<"\n", " ">>,
     <<"a", " ", "a">>, <<"a", " ", "\n", "a">>}

\* html5lib.constants: "pre", "textarea" and the rcdataElements
spacePreserveElements ==
    {"pre", "textarea", "style", "script", "xmp", "iframe", "noembed", "noframes", "noscript"}

\* An item an XPath selector returns: an element (tag, child nodes in
\* document order), or a smart string (attribute value, text or tail).
Node(kind, tag, text) == [kind |-> kind, tag |-> tag, text |-> text]

Nodes ==
    {Node("text", "", t) : t \in Texts} \cup
    {Node("comment", "", <<" ", "a">>)} \cup
    {Node("element", tag, t) : tag \in {"b", "pre"}, t \in Texts \cup {<<>>}}

Item(kind, tag, nodes, value) == [kind |-> kind, tag |-> tag, nodes |-> nodes, value |-> value]

Elements ==
    {Item("element", tag, nodes, <<>>) : tag \in {"p", "pre"}, nodes \in SeqsUpTo(Nodes, MaxChildren)}

SmartStrings ==
    {Item(kind, "", <<>>, t) : kind \in {"attribute", "text", "tail"}, t \in Texts}

RECURSIVE lstrip(_)
lstrip(data) ==
    IF data # <<>> /\ data[1] \in spaceCharacters THEN lstrip(Tail(data)) ELSE data

RECURSIVE rstrip(_)
rstrip(data) ==
    IF data # <<>> /\ data[Len(data)] \in spaceCharacters
    THEN rstrip(SubSeq(data, 1, Len(data) - 1)) ELSE data

strip(data) == lstrip(rstrip(data))

Token(type, name, data) == [type |-> type, name |-> name, data |-> data]

\* html5lib's TreeWalker.text(data): leading spaces, the middle, trailing
\* spaces, each a token when not empty.
TextTokens(data) ==
    LET tail == lstrip(data)
        left == SubSeq(data, 1, Len(data) - Len(tail))
        middle == rstrip(tail)
        right == SubSeq(tail, Len(middle) + 1, Len(tail))
    IN (IF left # <<>> THEN <<Token("SpaceCharacters", "", left)>> ELSE <<>>) \o
       (IF middle # <<>> THEN <<Token("Characters", "", middle)>> ELSE <<>>) \o
       (IF right # <<>> THEN <<Token("SpaceCharacters", "", right)>> ELSE <<>>)

NodeTokens(node) ==
    IF node.kind = "text" THEN TextTokens(node.text)
    ELSE IF node.kind = "comment" THEN <<Token("Comment", "", node.text)>>
    ELSE <<Token("StartTag", node.tag, <<>>)>> \o TextTokens(node.text) \o
         <<Token("EndTag", node.tag, <<>>)>>

\* TreeWalker(item): the tokens of the element and of all it holds
TreeWalker(item) ==
    <<Token("StartTag", item.tag, <<>>)>> \o
    Chain([n \in 1..Len(item.nodes) |-> NodeTokens(item.nodes[n])]) \o
    <<Token("EndTag", item.tag, <<>>)>>

\* collapse_spaces kept from collapsing.
collapse_spaces_Identity(text) == text

\* html5lib.filters.whitespace.collapse_spaces: every run of spaceCharacters
\* becomes one space
RECURSIVE collapse_spaces(_)
collapse_spaces(text) ==
    IF text = <<>> THEN <<>>
    ELSE IF text[1] \in spaceCharacters THEN <<" ">> \o collapse_spaces(lstrip(text))
    ELSE <<text[1]>> \o collapse_spaces(Tail(text))

\* html5lib.filters.whitespace.Filter, preserve elements being open
RECURSIVE WhitespaceFilterFrom(_, _)
WhitespaceFilterFrom(tokens, preserve) ==
    IF tokens = <<>> THEN <<>>
    ELSE LET token == tokens[1]
             rest == Tail(tokens)
         IN IF token.type = "StartTag" /\ (preserve > 0 \/ token.name \in spacePreserveElements)
            THEN <<token>> \o WhitespaceFilterFrom(rest, preserve + 1)
            ELSE IF token.type = "EndTag" /\ preserve > 0
            THEN <<token>> \o WhitespaceFilterFrom(rest, preserve - 1)
            ELSE IF preserve = 0 /\ token.type = "SpaceCharacters" /\ token.data # <<>>
            THEN <<Token(token.type, token.name, <<" ">>)>> \o WhitespaceFilterFrom(rest, preserve)
            ELSE IF preserve = 0 /\ token.type = "Characters"
            THEN <<Token(token.type, token.name, collapse_spaces(token.data))>> \o
                 WhitespaceFilterFrom(rest, preserve)
            ELSE <<token>> \o WhitespaceFilterFrom(rest, preserve)

WhitespaceFilter(tokens) == WhitespaceFilterFrom(tokens, 0)

\* item_to_string without the final strip().
item_to_string_Unstripped(item) ==
    IF item.kind = "element"
    THEN LET texts == SelectSeq(WhitespaceFilter(TreeWalker(item)),
                               LAMBDA token : token.type \in {"Characters", "SpaceCharacters"})
         IN Chain([k \in 1..Len(texts) |-> texts[k].data])
    ELSE item.value

\* _item_to_string(item)
item_to_string(item) ==
    IF item.kind = "element"
    THEN LET texts == SelectSeq(WhitespaceFilter(TreeWalker(item)),
                               LAMBDA token : token.type \in {"Characters", "SpaceCharacters"})
         IN strip(Chain([k \in 1..Len(texts) |-> texts[k].data]))
    ELSE item.value

ItemToStringCall == Returns("_item_to_string", item_to_string(call.arg))

InitItemToString ==
    /\ NotRendering
    /\ \E item \in Elements \cup SmartStrings : call = Called("_item_to_string", item)

NextItemToString == ItemToStringCall

SpecItemToString == InitItemToString /\ [][NextItemToString]_vars

\* ------------------------------------------------------------------ select
\* What selector(tree) returns: a list of items, a bool, a float or a str.
XPathResult(kind, items, bool, number, string) ==
    [kind |-> kind, items |-> items, bool |-> bool, number |-> number, string |-> string]

SelectItems ==
    {Item("element", "p", <<Node("text", "", t)>>, <<>>) : t \in Texts} \cup
    {Item("attribute", "", <<>>, t) : t \in Texts}

XPathResults ==
    {XPathResult("nodeset", items, FALSE, 0, <<>>) : items \in SeqsUpTo(SelectItems, MaxLen)} \cup
    {XPathResult("bool", <<>>, b, 0, <<>>) : b \in BOOLEAN} \cup
    {XPathResult("number", <<>>, FALSE, n, <<>>) : n \in 0..MaxLen} \cup
    {XPathResult("string", <<>>, FALSE, 0, t) : t \in Texts}

\* The values in the list select() returns: a str or a float.
PyStr(text) == [type |-> "str", text |-> text, number |-> 0]
PyFloat(number) == [type |-> "float", text |-> <<>>, number |-> number]

\* str(result) of a bool
StrOfBool(b) == IF b THEN <<"T", "r", "u", "e">> ELSE <<"F", "a", "l", "s", "e">>

\* select without `and not isinstance(result, str)`: a str is iterated.
select_IterateStr(xresult) ==
    IF xresult.kind = "nodeset"
    THEN [j \in 1..Len(xresult.items) |-> PyStr(item_to_string(xresult.items[j]))]
    ELSE IF xresult.kind = "string"
    THEN [j \in 1..Len(xresult.string) |-> PyStr(<<xresult.string[j]>>)]
    ELSE IF xresult.kind = "bool" THEN <<PyStr(StrOfBool(xresult.bool))>>
    ELSE <<PyFloat(xresult.number)>>

\* select(tree, selector), xresult being selector(tree)
select(xresult) ==
    IF xresult.kind = "nodeset"
    THEN [j \in 1..Len(xresult.items) |-> PyStr(item_to_string(xresult.items[j]))]
    ELSE IF xresult.kind = "bool" THEN <<PyStr(StrOfBool(xresult.bool))>>
    ELSE IF xresult.kind = "number" THEN <<PyFloat(xresult.number)>>
    ELSE <<PyStr(xresult.string)>>

SelectCall == Returns("select", select(call.arg))

InitSelect ==
    /\ NotRendering
    /\ \E r \in XPathResults : call = Called("select", r)

NextSelect == SelectCall

SpecSelect == InitSelect /\ [][NextSelect]_vars

\* ---------------------------------------------------- autocast_series_dtype
MaxSeries == 3      \* values of the series given to autocast_series_dtype

\* A Series: its dtype and its values.  In an object Series a value is a str
\* or None; in a numeric one a number or NaN.
Series(dtype, values) == [dtype |-> dtype, values |-> values]
PyNone == [type |-> "NoneType", text |-> <<>>, number |-> 0]
NaN == [type |-> "float", text |-> <<"n", "a", "n">>, number |-> 0]

CellTexts == {<<>>, <<"1">>, <<"1", "2">>, <<"x">>, <<"1", "x">>}

ObjectSeries ==
    {Series("object", values) :
        values \in SeqsUpTo({PyNone} \cup {PyStr(t) : t \in CellTexts}, MaxSeries)}

DigitChars == <<"0", "1", "2", "3", "4", "5", "6", "7", "8", "9">>

Digits == [c \in Range(DigitChars) |-> (CHOOSE d \in 1..10 : DigitChars[d] = c) - 1]

\* The number a str is parsed as (decimal digits).
RECURSIVE NumberOf(_)
NumberOf(text) ==
    IF text = <<>> THEN 0
    ELSE 10 * NumberOf(SubSeq(text, 1, Len(text) - 1)) + Digits[text[Len(text)]]

\* pd.to_numeric(series) raises ValueError: a str that is neither empty nor
\* a number
Unparsable(value) ==
    value.type = "str" /\ \E i \in 1..Len(value.text) : value.text[i] \notin DOMAIN Digits

\* pd.to_numeric(series): None and "" become NaN
to_numeric(series) ==
    LET number(value) == IF value.type = "NoneType" \/ value.text = <<>> THEN NaN
                         ELSE PyFloat(NumberOf(value.text))
        values == [i \in 1..Len(series.values) |-> number(series.values[i])]
    IN Series(IF \E i \in 1..Len(values) : values[i] = NaN THEN "float64" ELSE "int64", values)

\* autocast_series_dtype without `if (nulls | (series == "")).all()`.
autocast_series_dtype_NoEmptyTest(series) ==
    IF \E i \in 1..Len(series.values) : Unparsable(series.values[i])
    THEN series
    ELSE to_numeric(series)

\* autocast_series_dtype(series), series.dtype being object
autocast_series_dtype(series) ==
    IF \A i \in 1..Len(series.values) :
            series.values[i].type = "NoneType" \/ series.values[i] = PyStr(<<>>)
    THEN series
    ELSE IF \E i \in 1..Len(series.values) : Unparsable(series.values[i])
    THEN series
    ELSE to_numeric(series)

AutocastCall == Returns("autocast_series_dtype", autocast_series_dtype(call.arg))

InitAutocast ==
    /\ NotRendering
    /\ \E series \in ObjectSeries : call = Called("autocast_series_dtype", series)

NextAutocast == AutocastCall

SpecAutocast == InitAutocast /\ [][NextAutocast]_vars

\* -------------------------------------------------------- uniquize_colnames
MaxNames == 3       \* column names given to uniquize_colnames

\* Column names, as the sequences of their characters: "A", "A 1", "A 2",
\* "A 01", "B", "A 1 1", "A x".
Colnames ==
    {<<"A">>, <<"A", " ", "1">>, <<"A", " ", "2">>, <<"A", " ", "0", "1">>, <<"B">>,
     <<"A", " ", "1", " ", "1">>, <<"A", " ", "x">>}

\* str(num)
RECURSIVE StrOfNat(_)
StrOfNat(n) ==
    IF n < 10 THEN <<DigitChars[n + 1]>>
    ELSE StrOfNat(n \div 10) \o <<DigitChars[(n % 10) + 1]>>

\* regex.fullmatch(colname) with r"\A(.*?) (\d+)\Z", then key and num: the
\* digits are those after the last space, the key what is before it.
Match(colname) ==
    LET spaces == {i \in 1..Len(colname) : colname[i] = " "}
        last == Max(spaces)
        digits == SubSeq(colname, last + 1, Len(colname))
    IN IF /\ spaces # {}
          /\ digits # <<>>
          /\ \A i \in 1..Len(digits) : digits[i] \in Range(DigitChars)
       THEN [match |-> TRUE, key |-> SubSeq(colname, 1, last - 1), num |-> NumberOf(digits)]
       ELSE [match |-> FALSE, key |-> colname, num |-> 1]

\* NextNum keeping a number that is used.
NextNum_Keep(num, used_nums) == num

\* if num in used_nums: num = next(n for n in range(1, 9999999) if n not in used_nums)
NextNum(num, used_nums) ==
    IF num \in used_nums
    THEN CHOOSE n \in 1..(Cardinality(used_nums) + 1) :
            n \notin used_nums /\ \A m \in 1..(n - 1) : m \in used_nums
    ELSE num

\* The loop of uniquize_colnames, blacklist being the set of the <<key, num>>
\* seen.
RECURSIVE UniquizeFrom(_, _)
UniquizeFrom(colnames, blacklist) ==
    IF colnames = <<>> THEN <<>>
    ELSE LET m == Match(colnames[1])
             used_nums == {p[2] : p \in {q \in blacklist : q[1] = m.key}}
             num == NextNum(m.num, used_nums)
             name == IF ~m.match /\ num = 1 THEN m.key
                     ELSE m.key \o <<" ">> \o StrOfNat(num)
         IN <<name>> \o UniquizeFrom(Tail(colnames), blacklist \cup {<<m.key, num>>})

\* list(uniquize_colnames(colnames))
uniquize_colnames(colnames) == UniquizeFrom(colnames, {})

UniquizeCall == Returns("uniquize_colnames", uniquize_colnames(call.arg))

InitUniquize ==
    /\ NotRendering
    /\ \E colnames \in SeqsUpTo(Colnames, MaxNames) : call = Called("uniquize_colnames", colnames)

NextUniquize == UniquizeCall

SpecUniquize == InitUniquize /\ [][NextUniquize]_vars

\* ------------------------------------------- merge_colspan_headers_in_place
\* A column label of the table pandas read: a tuple of strings, an int or a
\* string.
TupleLabel(vals) == [kind |-> "tuple", vals |-> vals, number |-> 0, name |-> <<>>]
IntLabel(c) == [kind |-> "int", vals |-> <<>>, number |-> c, name |-> <<>>]
StrLabel(name) == [kind |-> "str", vals |-> <<>>, number |-> 0, name |-> name]

Year == <<"y">>
Month == <<"m">>

\* "Column " and " - "
ColumnPrefix == <<"C", "o", "l", "u", "m", "n", " ">>
Dash == <<" ", "-", " ">>

\* ('y', 'y'), ('y', 'm'), ('y', 'm', 'm'), ('y', 'm', 'y'), ('y', 'y', 'y'),
\* 0, 1, 'y', 'Column 1', 'y - m'
Labels ==
    {TupleLabel(<<Year, Year>>), TupleLabel(<<Year, Month>>),
     TupleLabel(<<Year, Month, Month>>), TupleLabel(<<Year, Month, Year>>),
     TupleLabel(<<Year, Year, Year>>),
     IntLabel(0), IntLabel(1),
     StrLabel(Year), StrLabel(ColumnPrefix \o <<"1">>), StrLabel(Year \o Dash \o Month)}

\* The while loop leaving the values as they are.
CollapseFrom_Keep(vals, idx) == vals

\* while idx < len(vals) - 1: pop vals[idx] if it equals vals[idx + 1],
\* otherwise idx += 1 (idx counts from 1 here)
RECURSIVE CollapseFrom(_, _)
CollapseFrom(vals, idx) ==
    IF idx < Len(vals)
    THEN IF vals[idx] = vals[idx + 1]
         THEN CollapseFrom(SubSeq(vals, 1, idx - 1) \o SubSeq(vals, idx + 1, Len(vals)), idx)
         ELSE CollapseFrom(vals, idx + 1)
    ELSE vals

\* " - ".join(vals)
RECURSIVE JoinDash(_)
JoinDash(vals) ==
    IF vals = <<>> THEN <<>>
    ELSE IF Len(vals) = 1 THEN vals[1]
    ELSE vals[1] \o Dash \o JoinDash(Tail(vals))

\* What the loop appends to newcols for the label c.
NewCol(c) ==
    IF c.kind = "tuple" THEN JoinDash(CollapseFrom(c.vals, 1))
    ELSE IF c.kind = "int" THEN ColumnPrefix \o StrOfNat(c.number + 1)
    ELSE c.name

\* table.columns after merge_colspan_headers_in_place(table)
merge_colspan_headers_in_place(columns) ==
    uniquize_colnames([i \in 1..Len(columns) |-> NewCol(columns[i])])

MergeCall ==
    Returns("merge_colspan_headers_in_place", merge_colspan_headers_in_place(call.arg))

InitMerge ==
    /\ NotRendering
    /\ \E columns \in SeqsUpTo(Labels, MaxNames) :
            call = Called("merge_colspan_headers_in_place", columns)

NextMerge == MergeCall

SpecMerge == InitMerge /\ [][NextMerge]_vars

\* ================================================================ claims
XpathRun == table.has_html /\ params.method = "xpath"
TableRun == table.has_html /\ params.method # "xpath"

NonNull(docs) == SelectSeq(docs, LAMBDA d : ~d.null)

\* L_m: how many items column m's selector matches on doc.
Matched(doc, column) == Len(doc.sel[column.selector].items)
Lengths(doc) == {Matched(doc, columns_to_parse[m]) : m \in 1..Len(columns_to_parse)}
Raising(doc) == {m \in 1..Len(columns_to_parse) : doc.sel[columns_to_parse[m].selector].error}
Min(S) == CHOOSE m \in S : \A x \in S : m <= x

\* C1: the table extract_dataframe_by_zip builds for a document has the
\* configured columns and exactly max(L_m) rows; column m holds the L_m
\* strings its selector gave, in order, in rows 1..L_m and null below.
C1_ZipPadsToLongest ==
    XpathRun =>
        \A k \in 1..Len(result_tables) :
            LET doc == NonNull(html)[k]
                t == result_tables[k]
            IN /\ t.columns = [m \in 1..Len(columns_to_parse) |-> columns_to_parse[m].colname]
               /\ t.nrows = Max(Lengths(doc))
               /\ \A m \in 1..Len(columns_to_parse) :
                    LET column == columns_to_parse[m]
                        series == t.data[column.colname]
                    IN /\ Len(series) = t.nrows
                       /\ \A r \in 1..t.nrows :
                            series[r] = IF r <= Matched(doc, column)
                                        THEN Select(doc, column.selector)[r]
                                        ELSE Null

\* C1 witness: a document whose two columns matched 1 and 2 items.
C1_Witness ==
    /\ XpathRun
    /\ \E k \in 1..Len(result_tables) :
        /\ Lengths(NonNull(html)[k]) = {1, 2}
        /\ result_tables[k].nrows = 2

Mismatching == {i \in 1..Len(html) : ~html[i].null /\ Cardinality(Lengths(html[i])) > 1}

Defective(cs, k) ==
    \/ cs[k].colname = ""
    \/ \E j \in 1..(k - 1) : cs[j].colname = cs[k].colname
    \/ cs[k].colxpath = ""
    \/ cs[k].colxpath \notin CompilingXpaths

ConfigErrorIds ==
    {"badParam.colname.missing", "badParam.colname.duplicate",
     "badParam.colxpath.missing", "badParam.colxpath.invalid"}

C4_ConfigErrorBeforeDocuments ==
    (XpathRun /\ \E k \in 1..Len(params.colselectors) : Defective(params.colselectors, k)) =>
        /\ pc \in {"Idle", "ValidatingColumns", "ConfigError"}
        /\ html = <<>> /\ parsed = {} /\ result_tables = <<>>
        /\ pc = "ConfigError" =>
            /\ result.kind = "message"
            /\ result.table = NoTable
            /\ result.message.id \in ConfigErrorIds

\* C4 witness: the second column repeats the first one's name, the input
\* has documents, and the run has ended with the error.
C4_Witness ==
    /\ XpathRun /\ pc = "ConfigError" /\ table.nrows > 0
    /\ Len(columns_to_parse) = 1
    /\ result.message.id = "badParam.colname.duplicate"

\* C5: an evaluation error on a document ends the run there, with only the
\* message naming the first column whose selector raised.
C5_EvalErrorAborts ==
    XpathRun =>
        /\ \A i \in 1..Len(html) :
            (~html[i].null /\ Raising(html[i]) # {}) =>
                /\ i = Len(html)
                /\ pc = "ColumnExtractionAborted"
                /\ result = [kind |-> "message", table |-> NoTable,
                             message |-> Message("ColumnExtractionError.message",
                                                 columns_to_parse[Min(Raising(html[i]))].colname,
                                                 0), quickFixes |-> <<>>]
        /\ pc = "ColumnExtractionAborted" =>
                Len(html) > 0 /\ Raising(html[Len(html)]) # {}

\* C5 witness: the second document raises after the first gave rows.
C5_Witness ==
    /\ XpathRun /\ pc = "ColumnExtractionAborted"
    /\ Len(html) = 2
    /\ Len(result_tables) = 1 /\ result_tables[1].nrows > 0
    /\ result.table = NoTable

\* C6: an xpath run moves Idle -> ValidatingColumns -> (ConfigError |
\* PerDocumentLoop -> (Aggregated | ColumnExtractionAborted)) and is never
\* anywhere else.
ClaimedStates ==
    {"Idle", "ValidatingColumns", "ConfigError", "PerDocumentLoop",
     "Aggregated", "ColumnExtractionAborted"}

C6_OnlyClaimedStates == XpathRun => pc \in ClaimedStates

\* C6 as amended: the same machine with a fourth terminal state,
\* ReturnedInput, entered from ValidatingColumns when the column list is
\* empty.  The loop over the documents is entered only with every column
\* spec validated, each step of it reads the next input row, a terminal
\* state is never left, and every run reaches one.
XpathTerminal == {"ConfigError", "ReturnedInput", "Aggregated", "ColumnExtractionAborted"}

XpathEdges ==
    {<<"Idle", "ValidatingColumns">>,
     <<"ValidatingColumns", "ValidatingColumns">>,
     <<"ValidatingColumns", "ConfigError">>,
     <<"ValidatingColumns", "ReturnedInput">>,
     <<"ValidatingColumns", "PerDocumentLoop">>,
     <<"PerDocumentLoop", "PerDocumentLoop">>,
     <<"PerDocumentLoop", "Aggregated">>,
     <<"PerDocumentLoop", "ColumnExtractionAborted">>}

C6_States ==
    XpathRun =>
        /\ pc \in ClaimedStates \cup {"ReturnedInput"}
        /\ pc = "ReturnedInput" => params.colselectors = <<>>
        /\ pc \in {"PerDocumentLoop", "Aggregated", "ColumnExtractionAborted"} =>
            /\ Len(columns_to_parse) = Len(params.colselectors)
            /\ \A k \in 1..Len(params.colselectors) : ~Defective(params.colselectors, k)
        /\ parsed \subseteq 0..(Len(html) - 1)
        /\ Len(html) <= table.nrows

C6_Step ==
    XpathRun =>
        /\ <<pc, pc'>> \in XpathEdges
        /\ pc \notin XpathTerminal
        /\ (pc = "PerDocumentLoop" /\ pc' # "Aggregated") =>
            /\ Len(html') = Len(html) + 1
            /\ SubSeq(html', 1, Len(html)) = html
            /\ parsed' \subseteq parsed \cup {Len(html)}
        /\ (pc # "PerDocumentLoop" \/ pc' = "Aggregated") =>
            /\ html' = html
            /\ parsed' = parsed

C6_StateMachine ==
    /\ [](C6_States)
    /\ [][C6_Step]_vars
    /\ XpathRun => <>(pc \in XpathTerminal)

\* C6 witness: the run ended by returning its input, documents unread.
C6_Witness == XpathRun /\ pc = "ReturnedInput" /\ table.nrows > 0

\* C7: a null entry of table["html"] is not parsed and gives no row, no
\* warning and no error: the returned table is the one the other entries
\* give.
ZipTables(docs) ==
    [k \in 1..Len(docs) |-> ExtractDataframeByZip(docs[k], columns_to_parse).table]

PageTables(docs) ==
    LET one(d) == ExtractTableFromOnePage(d, params.tablenum - 1, NoRowname)
        good == SelectSeq(docs, LAMBDA d : ~one(d).is_message)
    IN [k \in 1..Len(good) |-> one(good[k]).table]

C7_NullSkipped ==
    /\ \A i \in 1..Len(html) : html[i].null => (i - 1) \notin parsed
    /\ (XpathRun /\ pc = "Aggregated") =>
        /\ result.table = IF NonNull(html) = <<>> THEN EmptyFrame(columns_to_parse)
                          ELSE Concat(ZipTables(NonNull(html)))
        /\ NonNull(html) = <<>> =>
            result.kind = "table" /\ result.message = NoMessage /\ result.table.nrows = 0
    /\ (TableRun /\ pc = "TableDone") =>
        /\ result.table = IF PageTables(NonNull(html)) = <<>> THEN NoTable
                          ELSE Concat(PageTables(NonNull(html)))
        /\ NonNull(html) = <<>> =>
            result.kind = "table" /\ result.message = NoMessage /\ result.table.nrows = 0

\* C7 witness: a null entry before a document that gives rows.
C7_Witness ==
    /\ XpathRun /\ pc = "Aggregated"
    /\ Len(html) = 2 /\ html[1].null /\ ~html[2].null
    /\ result.table.nrows > 0

\* C8: with a row selector, the output has one row per anchor the row
\* selector matches, in every document.
RECURSIVE Anchors(_)
Anchors(docs) ==
    IF docs = <<>> THEN 0
    ELSE Anchors(SubSeq(docs, 1, Len(docs) - 1)) + docs[Len(docs)].rows

C8_OneRowPerAnchor ==
    (XpathRun /\ params.rowxpath # "" /\ pc = "Aggregated") =>
        result.table.nrows = Anchors(NonNull(html))

\* C9: with a row selector, the cell of an anchor and a column is the
\* strings the column's selector matches under that anchor, joined with one
\* space: the empty string, never null, when it matches none.
RECURSIVE Join(_)
Join(texts) ==
    IF texts = <<>> THEN <<>>
    ELSE IF Len(texts) = 1 THEN texts[1]
    ELSE Join(SubSeq(texts, 1, Len(texts) - 1)) \o <<Space>> \o texts[Len(texts)]

RecordCell(doc, anchor, column) ==
    LET items == doc.sel[column.selector].items
        under == SelectSeq([j \in 1..Len(items) |-> j], LAMBDA j : items[j] = anchor)
    IN Str(Join([n \in 1..Len(under) |-> ItemToString(column.selector, under[n]).text]))

C9_RecordCells ==
    (XpathRun /\ params.rowxpath # "" /\ pc = "Aggregated") =>
        \A k \in 1..Len(NonNull(html)) :
            LET doc == NonNull(html)[k]
                before == Anchors(SubSeq(NonNull(html), 1, k - 1))
            IN \A anchor \in 1..doc.rows, m \in 1..Len(columns_to_parse) :
                /\ before + anchor <= result.table.nrows
                /\ result.table.data[columns_to_parse[m].colname][before + anchor] =
                        RecordCell(doc, anchor, columns_to_parse[m])

\* C10: the concatenated table has exactly the columns of the
\* per-document tables, each once; the rows of a per-document table carry
\* its values in its own columns and null in the others.
RowsBefore(k) == SumRows(SubSeq(result_tables, 1, k - 1))

C10_ColumnUnion ==
    (pc \in {"Aggregated", "TableDone"} /\ result_tables # <<>>) =>
        LET union == UNION {Range(result_tables[k].columns) : k \in 1..Len(result_tables)}
            out == result.table
        IN /\ Range(out.columns) = union
           /\ Len(out.columns) = Cardinality(union)
           /\ out.nrows = SumRows(result_tables)
           /\ \A c \in union : Len(out.data[c]) = out.nrows
           /\ \A k \in 1..Len(result_tables), c \in union :
                LET t == result_tables[k]
                IN SubSeq(out.data[c], RowsBefore(k) + 1, RowsBefore(k) + t.nrows) =
                       IF c \in Range(t.columns) THEN t.data[c]
                       ELSE [r \in 1..t.nrows |-> Null]

\* C10 witness: a page with column A alone, then a page with A and B.
C10_Witness ==
    /\ TableRun /\ pc = "TableDone" /\ Len(result_tables) = 2
    /\ result_tables[1].columns = <<"A">> /\ result_tables[1].nrows = 1
    /\ result_tables[2].columns = <<"A", "B">>
    /\ result.table.columns = <<"A", "B">>
    /\ result.table.data["B"][1] = Null

C12_NoHtmlQuickFix ==
    ~table.has_html =>
        /\ pc \in {"Idle", "NoHtml"}
        /\ html = <<>> /\ parsed = {} /\ result_tables = <<>> /\ columns_to_parse = <<>>
        /\ pc = "NoHtml" =>
            /\ result.kind = "quickfix"
            /\ result.table = NoTable
            /\ result.message = Message("error.noHtml.error", "", 0)
            /\ Len(result.quickFixes) = 1
            /\ result.quickFixes[1].action = "prependModule"
            /\ result.quickFixes[1].args.module = "urlscraper"

\* C12 witness: the table method, an input with rows and no 'html' column.
C12_Witness ==
    /\ ~table.has_html /\ table.nrows > 0 /\ params.method = "table"
    /\ pc = "NoHtml"
    /\ result.quickFixes # <<>>

\* C13: with an empty list of column specs, an xpath run returns the input
\* table as it is ('html' among its columns, every row) with no message, and
\* reads and parses no document.
C13_EmptyColselectorsReturnInput ==
    (XpathRun /\ params.colselectors = <<>>) =>
        /\ pc \in {"Idle", "ValidatingColumns", "ReturnedInput"}
        /\ html = <<>> /\ parsed = {} /\ result_tables = <<>>
        /\ pc = "ReturnedInput" =>
            /\ result.kind = "input"
            /\ result.table = InputFrame(table)
            /\ "html" \in Range(result.table.columns)
            /\ result.table.nrows = table.nrows
            /\ result.message = NoMessage
            /\ result.quickFixes = <<>>

\* C13 witness: an input with a 'url' column and two rows is returned.
C13_Witness ==
    /\ XpathRun /\ params.colselectors = <<>> /\ pc = "ReturnedInput"
    /\ table.has_url /\ table.nrows = 2
    /\ result.table.columns = <<"url", "html">>
    /\ result.table.nrows = 2

\* C14: with valid, non-empty column specs and an input whose rows are all
\* null (or that has no row), an xpath run ends with a table of no rows whose
\* columns are the configured names in the configured order, and with
\* neither a warning nor an error.
ConfiguredNames == [k \in 1..Len(params.colselectors) |-> params.colselectors[k].colname]

C14_NoDocumentsEmptyTable ==
    (/\ XpathRun
     /\ params.colselectors # <<>>
     /\ \A k \in 1..Len(params.colselectors) : ~Defective(params.colselectors, k)
     /\ NonNull(html) = <<>>) =>
        /\ pc \in {"Idle", "ValidatingColumns", "PerDocumentLoop", "Aggregated"}
        /\ pc = "Aggregated" =>
            /\ result.kind = "table"
            /\ result.message = NoMessage
            /\ result.quickFixes = <<>>
            /\ result.table.columns = ConfiguredNames
            /\ result.table.nrows = 0
            /\ \A c \in Range(ConfiguredNames) : result.table.data[c] = <<>>

\* C14 witness: two columns, two rows, both null.
C14_Witness ==
    /\ XpathRun /\ pc = "Aggregated"
    /\ Len(html) = 2 /\ html[1].null /\ html[2].null
    /\ result.table.columns = <<"Y", "X">>
    /\ result.table.nrows = 0

\* C14 witness, the other case: the input has no row at all.
C14_WitnessNoRows ==
    /\ XpathRun /\ pc = "Aggregated"
    /\ table.nrows = 0
    /\ result.table.columns = <<"X">>

\* C15: migrate_params returns params without 'method' with method "xpath"
\* and tablenum 1, and leaves method and tablenum of the others alone; the
\* result never has the key 'first_row_is_header', has the other keys it was
\* given, and each of those with the value given.
C15_MigrateParams ==
    migration.pc = "Returned" =>
        LET given == migration.given
            out == migration.heap[migration.returned]
        IN /\ "first_row_is_header" \notin DOMAIN out
           /\ "method" \notin DOMAIN given =>
                /\ DOMAIN out = (DOMAIN given \cup {"method", "tablenum"}) \ {"first_row_is_header"}
                /\ out["method"] = "xpath"
                /\ out["tablenum"] = 1
           /\ "method" \in DOMAIN given =>
                /\ DOMAIN out = DOMAIN given \ {"first_row_is_header"}
                /\ out["method"] = given["method"]
                /\ "tablenum" \in DOMAIN given => out["tablenum"] = given["tablenum"]
           /\ \A k \in DOMAIN given \ {"method", "tablenum", "first_row_is_header"} :
                out[k] = given[k]

\* C15 witness: params of the first version, with a tablenum of their own,
\* the defunct key and a column spec.
C15_Witness ==
    /\ migration.pc = "Returned"
    /\ DOMAIN migration.given = {"tablenum", "first_row_is_header", "colselectors"}
    /\ migration.given["tablenum"] = 2
    /\ migration.given["colselectors"] # <<>>
    /\ migration.heap[migration.returned]["tablenum"] = 1

\* C16: after migrate_params the dict the caller passed has the keys and
\* the values it had before the call.
C16_MigrateParamsPure ==
    migration.pc = "Returned" =>
        /\ DOMAIN migration.heap[1] = DOMAIN migration.given
        /\ \A k \in DOMAIN migration.given : migration.heap[1][k] = migration.given[k]

\* C17: in table mode a table number below 1 ends the run at once with the
\* message 'Table number must be at least 1' alone: no row is read, no
\* document parsed.
C17_TablenumBelowOne ==
    (TableRun /\ params.tablenum < 1) =>
        /\ pc \in {"Idle", "TablenumError"}
        /\ html = <<>> /\ parsed = {} /\ result_tables = <<>>
        /\ one_result = NoOneResult /\ first_warning = NoMessage
        /\ pc = "TablenumError" =>
            result = [kind |-> "message", table |-> NoTable,
                      message |-> Message("badParam.tablenum.negative", "", 0),
                      quickFixes |-> <<>>]

\* C17 witness: table number 0 on an input with two rows.
C17_Witness ==
    /\ TableRun /\ params.tablenum = 0 /\ table.nrows = 2
    /\ pc = "TablenumError"
    /\ result.message.id = "badParam.tablenum.negative"

\* What the claims say of one page, n being the table number the user gave
\* (1-based) and i the 1-based position of the page in the input.
Yields(doc) ==
    /\ doc.page.outcome = "tables"
    /\ 1 <= params.tablenum /\ params.tablenum <= doc.page.ntables

NthTable(doc) ==
    DataFrame(doc.page.columns, doc.page.nrows,
              [c \in Range(doc.page.columns) |->
                  [r \in 1..doc.page.nrows |-> Str(<< <<c, r, params.tablenum - 1>> >>)]])

Failing == {i \in 1..Len(html) : ~html[i].null /\ ~Yields(html[i])}

ClaimedRowname(i) ==
    IF table.has_url THEN Rowname("url", i - 1) ELSE Rowname("input html row", i)

ClaimedMessage(i) ==
    LET page == html[i].page
    IN IF page.outcome = "IndexError"
       THEN PageMessage("error.noColumn", ClaimedRowname(i), 0)
       ELSE IF page.outcome = "ValueError" \/ page.ntables = 0
       THEN PageMessage("error.noTable", ClaimedRowname(i), 0)
       ELSE PageMessage("badParam.tableNum.tooBig", ClaimedRowname(i), page.ntables)

YieldedTables ==
    LET good == SelectSeq(html, LAMBDA d : ~d.null /\ Yields(d))
    IN [k \in 1..Len(good) |-> NthTable(good[k])]

\* C18: in table mode a page that gives a message gives no rows and does
\* not end the loop.  The run returns the concatenation of the tables of the
\* other pages, with the message of the first failing page as a warning when
\* a page failed; that message alone when no page gave a table; an empty
\* table when there was neither a table nor a failure.
C18_SoftFailures ==
    (TableRun /\ params.tablenum >= 1) =>
        /\ pc \in {"Idle", "PerPageLoop", "TableDone"}
        /\ result_tables = YieldedTables
        /\ first_warning = IF Failing = {} THEN NoMessage ELSE ClaimedMessage(Min(Failing))
        /\ pc = "TableDone" =>
            /\ Len(html) = table.nrows
            /\ result.quickFixes = <<>>
            /\ (YieldedTables # <<>> /\ Failing # {}) =>
                    /\ result.kind = "table+message"
                    /\ result.table = Concat(YieldedTables)
                    /\ result.message = ClaimedMessage(Min(Failing))
            /\ (YieldedTables # <<>> /\ Failing = {}) =>
                    /\ result.kind = "table"
                    /\ result.table = Concat(YieldedTables)
                    /\ result.message = NoMessage
            /\ (YieldedTables = <<>> /\ Failing # {}) =>
                    /\ result.kind = "message"
                    /\ result.table = NoTable
                    /\ result.message = ClaimedMessage(Min(Failing))
            /\ (YieldedTables = <<>> /\ Failing = {}) =>
                    /\ result.kind = "table"
                    /\ result.table = NoTable
                    /\ result.message = NoMessage

\* C18 witness: a page without <table>, then a page that gives rows; the
\* run returns the rows with the first page's message.
C18_Witness ==
    /\ TableRun /\ pc = "TableDone"
    /\ Failing = {1} /\ Len(YieldedTables) = 1
    /\ result.kind = "table+message"
    /\ result.table.nrows > 0
    /\ result.message.id = "error.noTable"

\* C18 witness, two failures: the first page's message is the error.
C18_WitnessTwoFailures ==
    /\ TableRun /\ pc = "TableDone"
    /\ Failing = {1, 2}
    /\ html[1].page.outcome = "IndexError" /\ html[2].page.outcome = "ValueError"
    /\ result.kind = "message"
    /\ result.message.id = "error.noColumn"

\* C19: a page on which T tables are found gives, for the table number n
\* of the user, its n-th table (tables[n-1]) when 1 <= n <= T, the 'maximum
\* table number' message with T and the name of the row when n > T >= 1,
\* and the 'no <table> tags' message when T = 0.
C19_TableIndexBounds ==
    (/\ TableRun /\ params.tablenum >= 1 /\ html # <<>>
     /\ ~html[Len(html)].null /\ html[Len(html)].page.outcome = "tables") =>
        LET i == Len(html)
            T == html[i].page.ntables
            n == params.tablenum
        IN /\ (T >= 1 /\ n <= T) =>
                one_result = PageResult(FALSE, NoMessage, NthTable(html[i]))
           /\ (T >= 1 /\ n > T) =>
                one_result =
                    PageResult(TRUE, PageMessage("badParam.tableNum.tooBig", ClaimedRowname(i), T),
                               NoTable)
           /\ T = 0 =>
                one_result =
                    PageResult(TRUE, PageMessage("error.noTable", ClaimedRowname(i), 0), NoTable)

\* C19 witness: the user asks for table 2 of a page with two tables, and
\* gets tables[1].
C19_Witness ==
    /\ TableRun /\ params.tablenum = 2 /\ html # <<>>
    /\ ~html[Len(html)].null /\ html[Len(html)].page.ntables = 2
    /\ ~one_result.is_message
    /\ one_result.table.nrows = 1
    /\ "A" \in Range(one_result.table.columns)
    /\ one_result.table.data["A"][1] = Str(<< <<"A", 1, 1>> >>)

\* C19 witness, n > T: table 3 of a page with two tables.
C19_WitnessTooBig ==
    /\ TableRun /\ params.tablenum = 3 /\ html # <<>>
    /\ ~html[Len(html)].null /\ html[Len(html)].page.ntables = 2
    /\ one_result.message.id = "badParam.tableNum.tooBig"
    /\ one_result.message.n_tables = 2

\* C20: the message of the page at input position i (0-based) names the
\* row by the value of 'url' in that row when the input has a 'url' column,
\* and by "input html row" with the number i + 1 otherwise.
C20_Rowname ==
    (/\ TableRun /\ params.tablenum >= 1 /\ html # <<>>
     /\ ~html[Len(html)].null /\ one_result.is_message) =>
        LET i == Len(html) - 1
        IN one_result.message.rowname =
                IF table.has_url THEN Rowname("url", i) ELSE Rowname("input html row", i + 1)

\* C20 witness: no 'url' column; the first row is null, the second fails
\* and is named row 2.
C20_Witness ==
    /\ TableRun /\ ~table.has_url /\ Len(html) = 2
    /\ html[1].null /\ ~html[2].null
    /\ one_result.is_message
    /\ one_result.message.rowname = Rowname("input html row", 2)

\* C20 witness, with a 'url' column: the second row is named by its url.
C20_WitnessUrl ==
    /\ TableRun /\ table.has_url /\ Len(html) = 2 /\ ~html[2].null
    /\ one_result.is_message
    /\ one_result.message.rowname = Rowname("url", 1)

\* What C22 says of the text of an element: the texts it holds in document
\* order, comments left out, each with its runs of white space made one
\* space, put together and stripped at both ends.
IsSpace(c) == c = " " \/ c = "\n"

Collapsed(t) ==
    LET kept == SelectSeq([i \in 1..Len(t) |-> i],
                          LAMBDA i : ~(IsSpace(t[i]) /\ i > 1 /\ IsSpace(t[i - 1])))
    IN [k \in 1..Len(kept) |-> IF IsSpace(t[kept[k]]) THEN " " ELSE t[kept[k]]]

Stripped(t) ==
    LET solid == {i \in 1..Len(t) : ~IsSpace(t[i])}
    IN IF solid = {} THEN <<>> ELSE SubSeq(t, Min(solid), Max(solid))

TextNodes(item) == SelectSeq(item.nodes, LAMBDA node : node.kind # "comment")

ItemToStringRun == call.fn = "_item_to_string" /\ call.pc = "Returned"

Preserved(item, node) ==
    item.tag \in spacePreserveElements \/
    (node.kind = "element" /\ node.tag \in spacePreserveElements)

C22_WitnessBoundary ==
    /\ ItemToStringRun /\ call.arg.kind = "element" /\ call.arg.tag = "p"
    /\ call.arg.nodes = <<Node("text", "", <<"a", "\n">>), Node("element", "b", <<" ", "a">>)>>
    /\ call.ret = <<"a", " ", " ", "a">>

SelectRun == call.fn = "select" /\ call.pc = "Returned"

\* C21: select() gives, for a node-set of k items, the k strings of the
\* items in their order; for a boolean the one string "True" or "False";
\* for a number that one number, not made a string; for a string the one
\* string, whole.
C21_SelectShape ==
    SelectRun =>
        LET r == call.arg
            out == call.ret
        IN /\ r.kind = "nodeset" =>
                /\ Len(out) = Len(r.items)
                /\ \A j \in 1..Len(out) :
                    /\ out[j].type = "str"
                    /\ out[j].text = item_to_string(r.items[j])
           /\ r.kind = "bool" =>
                /\ Len(out) = 1 /\ out[1].type = "str"
                /\ out[1].text = IF r.bool THEN <<"T", "r", "u", "e">>
                                  ELSE <<"F", "a", "l", "s", "e">>
           /\ r.kind = "number" =>
                Len(out) = 1 /\ out[1].type = "float" /\ out[1].number = r.number
           /\ r.kind = "string" =>
                Len(out) = 1 /\ out[1].type = "str" /\ out[1].text = r.string

\* C21 witness: the string constant 'a a' gives the one string 'a a'.
C21_Witness ==
    /\ SelectRun /\ call.arg.kind = "string"
    /\ call.arg.string = <<"a", " ", "a">>
    /\ call.ret = <<PyStr(<<"a", " ", "a">>)>>

\* C21 witness, a node-set: two items, two strings in the same order.
C21_WitnessNodeSet ==
    /\ SelectRun /\ call.arg.kind = "nodeset" /\ Len(call.arg.items) = 2
    /\ call.arg.items[1].kind = "element" /\ call.arg.items[2].kind = "attribute"
    /\ call.ret = <<PyStr(<<"a">>), PyStr(<<"a", "\n">>)>>

AutocastRun == call.fn = "autocast_series_dtype" /\ call.pc = "Returned"

\* The values of a text column that count: neither null nor empty.
Filled(series) ==
    {i \in 1..Len(series.values) :
        series.values[i].type = "str" /\ series.values[i].text # <<>>}

IsNumberText(text) == text # <<>> /\ \A i \in 1..Len(text) : text[i] \in {"0", "1", "2"}

AllFilledParse(series) == \A i \in Filled(series) : IsNumberText(series.values[i].text)

\* C23: a text column is made numeric exactly when every value of it that
\* is neither null nor empty parses as a number; otherwise it is returned
\* as text, its values as they were.
C23_NumericIffAllParse ==
    AutocastRun =>
        /\ (call.ret.dtype # "object") <=> AllFilledParse(call.arg)
        /\ ~AllFilledParse(call.arg) => call.ret = call.arg

\* C23 as amended: a text column is made numeric exactly when it has a
\* value that is neither null nor empty and every such value parses as a
\* number: those values become their numbers, the null and the empty ones
\* NaN.  Otherwise (a value does not parse, or every value is null or empty)
\* it is returned as text, its values as they were.
C23_NumericIffSomeAndAllParse ==
    AutocastRun =>
        LET convert == Filled(call.arg) # {} /\ AllFilledParse(call.arg)
        IN /\ (call.ret.dtype # "object") <=> convert
           /\ ~convert => call.ret = call.arg
           /\ convert =>
                /\ Len(call.ret.values) = Len(call.arg.values)
                /\ \A i \in 1..Len(call.arg.values) :
                        call.ret.values[i] =
                            IF i \in Filled(call.arg)
                            THEN PyFloat(NumberOf(call.arg.values[i].text))
                            ELSE NaN

\* C23 witness: the column ["12", "", None] becomes [12, NaN, NaN].
C23_Witness ==
    /\ AutocastRun
    /\ call.arg.values = <<PyStr(<<"1", "2">>), PyStr(<<>>), PyNone>>
    /\ call.ret.dtype = "float64"
    /\ call.ret.values = <<PyFloat(12), NaN, NaN>>

\* C23 witness, all empty: the column ["", ""] stays text.
C23_WitnessAllEmpty ==
    /\ AutocastRun
    /\ call.arg.values = <<PyStr(<<>>), PyStr(<<>>)>>
    /\ call.ret = call.arg

UniquizeRun == call.fn = "uniquize_colnames" /\ call.pc = "Returned"

\* What C25 says of a name: its suffix ' <digits>', if it has one, is its
\* number and what is before it its key; otherwise the name is its key.
IsDigit(c) == c \in {"0", "1", "2", "3", "4", "5", "6", "7", "8", "9"}

SuffixAt(name) ==
    {k \in 1..(Len(name) - 1) :
        name[k] = " " /\ \A i \in (k + 1)..Len(name) : IsDigit(name[i])}

HasSuffix(name) == SuffixAt(name) # {}

KeyOf(name) == IF HasSuffix(name) THEN SubSeq(name, 1, Max(SuffixAt(name)) - 1) ELSE name

NumberIn(name) ==
    IF HasSuffix(name) THEN NumberOf(SubSeq(name, Max(SuffixAt(name)) + 1, Len(name))) ELSE 1

\* The numbers the names before position i have taken for the key of the
\* name at i: a name emitted as its key alone took 1, a name emitted with a
\* number took that number.
TakenBefore(names, out, i) ==
    {IF out[j] = KeyOf(names[j]) THEN 1 ELSE NumberIn(out[j]) :
        j \in {k \in 1..(i - 1) : KeyOf(names[k]) = KeyOf(names[i])}}

SmallestFree(taken) == Min({n \in 1..(Cardinality(taken) + 1) : n \notin taken})

\* C25: uniquize_colnames gives as many names as it is given, no two of
\* them equal; a name without suffix whose key has not taken number 1 is
\* given back as it is; a name whose key and number are taken becomes its
\* key, a space and the smallest positive number the key has not taken.
C25_UniquizeColnames ==
    UniquizeRun =>
        LET names == call.arg
            out == call.ret
        IN /\ Len(out) = Len(names)
           /\ \A i, j \in 1..Len(out) : out[i] = out[j] => i = j
           /\ \A i \in 1..Len(names) :
                LET taken == TakenBefore(names, out, i)
                IN /\ (~HasSuffix(names[i]) /\ 1 \notin taken) => out[i] = names[i]
                   /\ NumberIn(names[i]) \in taken =>
                        out[i] = KeyOf(names[i]) \o <<" ">> \o StrOfNat(SmallestFree(taken))

\* C25 witness: "A", "A 1", "A" become "A", "A 2", "A 3".
C25_Witness ==
    /\ UniquizeRun
    /\ call.arg = << <<"A">>, <<"A", " ", "1">>, <<"A">> >>
    /\ call.ret = << <<"A">>, <<"A", " ", "2">>, <<"A", " ", "3">> >>

MergeRun == call.fn = "merge_colspan_headers_in_place" /\ call.pc = "Returned"

\* The entries of a tuple that begin a run: the first, and each one that
\* differs from the entry before it.
RECURSIVE RunHeads(_)
RunHeads(vals) ==
    IF vals = <<>> THEN <<>>
    ELSE LET front == RunHeads(SubSeq(vals, 1, Len(vals) - 1))
         IN IF Len(vals) > 1 /\ vals[Len(vals)] = vals[Len(vals) - 1]
            THEN front
            ELSE Append(front, vals[Len(vals)])

RECURSIVE Dashed(_)
Dashed(vals) ==
    IF Len(vals) = 0 THEN <<>>
    ELSE IF Len(vals) = 1 THEN vals[1]
    ELSE Dashed(SubSeq(vals, 1, Len(vals) - 1)) \o <<" ", "-", " ">> \o vals[Len(vals)]

MergedName(c) ==
    CASE c.kind = "tuple" -> Dashed(RunHeads(c.vals))
      [] c.kind = "int" -> <<"C", "o", "l", "u", "m", "n", " ">> \o StrOfNat(c.number + 1)
      [] OTHER -> c.name

\* C24: merge_colspan_headers_in_place names each column, in order, by its
\* label: a tuple by its entries with each run of equal adjacent entries
\* collapsed to one and " - " between them, an int c by "Column c+1", any
\* other label by itself; these names are then made unique, so the table
\* has as many columns as before and no two with one name.
C24_MergeColspanHeaders ==
    MergeRun =>
        LET columns == call.arg
            out == call.ret
        IN /\ Len(out) = Len(columns)
           /\ out = uniquize_colnames([i \in 1..Len(columns) |-> MergedName(columns[i])])
           /\ \A i, j \in 1..Len(out) : out[i] = out[j] => i = j

\* C24 witness: ('y', 'y', 'y'), ('y', 'm', 'm') and 0 become "y", "y - m"
\* and "Column 1".
C24_Witness ==
    /\ MergeRun
    /\ call.arg = <<TupleLabel(<<Year, Year, Year>>), TupleLabel(<<Year, Month, Month>>), IntLabel(0)>>
    /\ call.ret = <<Year, Year \o <<" ", "-", " ">> \o Month, <<"C", "o", "l", "u", "m", "n", " ", "1">> >>

\* C24 witness: ('y', 'y') and 'y' merge to one name, which is made unique.
C24_WitnessUnique ==
    /\ MergeRun
    /\ call.arg = <<TupleLabel(<<Year, Year>>), StrLabel(Year)>>
    /\ call.ret = <<Year, Year \o <<" ", "2">> >>

\* The rows the documents docs give: for each, the greatest number of items
\* one of the columns matched on it.
RECURSIVE DocRows(_)
DocRows(docs) ==
    IF docs = <<>> THEN 0
    ELSE DocRows(SubSeq(docs, 1, Len(docs) - 1)) + Max({0} \cup Lengths(docs[Len(docs)]))

\* C26: the table an xpath run ends with has the configured columns in the
\* configured order, all as long as the sum, over the documents processed,
\* of the greatest number of items a column matched on the document; the
\* rows of a document come after those of every earlier document, and the
\* r-th of them holds the r-th item of each column (null past its last).
C26_RectangularAndOrdered ==
    (XpathRun /\ pc = "Aggregated") =>
        LET docs == NonNull(html)
            out == result.table
        IN /\ out.columns = [m \in 1..Len(columns_to_parse) |-> columns_to_parse[m].colname]
           /\ out.columns = ConfiguredNames
           /\ out.nrows = DocRows(docs)
           /\ \A c \in Range(out.columns) : Len(out.data[c]) = out.nrows
           /\ \A k \in 1..Len(docs), m \in 1..Len(columns_to_parse) :
                LET column == columns_to_parse[m]
                    before == DocRows(SubSeq(docs, 1, k - 1))
                IN \A r \in 1..Max({0} \cup Lengths(docs[k])) :
                    out.data[column.colname][before + r] =
                        IF r <= Matched(docs[k], column)
                        THEN ItemToString(column.selector, r)
                        ELSE Null

\* C26 witness: the first document gives one row, the second two, of which
\* the second column has only the first; the table has three rows and the
\* null is in the last.
C26_Witness ==
    /\ XpathRun /\ pc = "Aggregated"
    /\ Len(columns_to_parse) = 2
    /\ Len(NonNull(html)) = 2
    /\ Lengths(NonNull(html)[1]) = {1}
    /\ Matched(NonNull(html)[2], columns_to_parse[1]) = 2
    /\ Matched(NonNull(html)[2], columns_to_parse[2]) = 1
    /\ result.table.nrows = 3
    /\ result.table.data[columns_to_parse[2].colname][2] # Null
    /\ result.table.data[columns_to_parse[2].colname][3] = Null

\* The defects of column spec k, in the order C27 gives them.
DefectsOf(cs, k) ==
    (IF cs[k].colname = "" THEN <<"badParam.colname.missing">> ELSE <<>>) \o
    (IF \E j \in 1..(k - 1) : cs[j].colname = cs[k].colname
        THEN <<"badParam.colname.duplicate">> ELSE <<>>) \o
    (IF cs[k].colxpath = "" THEN <<"badParam.colxpath.missing">> ELSE <<>>) \o
    (IF cs[k].colxpath # "" /\ cs[k].colxpath \notin CompilingXpaths
        THEN <<"badParam.colxpath.invalid">> ELSE <<>>)

\* C27: an xpath run that ends with a configuration error gives one
\* message and no table: that of the first defect, in the order missing
\* name, duplicate name, missing selector, invalid selector, of the earliest
\* column spec that has a defect; no later column spec has been looked at.
C27_EarliestDefectReported ==
    (XpathRun /\ pc = "ConfigError") =>
        LET cs == params.colselectors
            k == Min({i \in 1..Len(cs) : DefectsOf(cs, i) # <<>>})
        IN /\ \E i \in 1..Len(cs) : DefectsOf(cs, i) # <<>>
           /\ result.kind = "message"
           /\ result.table = NoTable
           /\ result.message.id = DefectsOf(cs, k)[1]
           /\ result.message.column_name =
                IF result.message.id \in {"badParam.colname.duplicate", "badParam.colxpath.invalid"}
                THEN cs[k].colname ELSE ""
           /\ Len(columns_to_parse) = k - 1

\* C27 witness: the first column spec has a selector that does not compile,
\* the second has no name; the error is the first one's.
C27_Witness ==
    /\ XpathRun /\ pc = "ConfigError"
    /\ Len(params.colselectors) = 2
    /\ params.colselectors[1].colname = "X"
    /\ params.colselectors[1].colxpath = "totes not an xpath"
    /\ params.colselectors[2].colname = ""
    /\ result.message = Message("badParam.colxpath.invalid", "X", 0)

\* C27 witness: the second column spec repeats the first one's name and has
\* no selector; the error is the duplicate name.
C27_WitnessTwoDefects ==
    /\ XpathRun /\ pc = "ConfigError"
    /\ Len(params.colselectors) = 2
    /\ params.colselectors[2].colname = params.colselectors[1].colname
    /\ params.colselectors[2].colxpath = ""
    /\ result.message.id = "badParam.colname.duplicate"

\* The positions of render() after a check other than that of the 'html'
\* column has been made.
OtherChecks ==
    {"ValidatingColumns", "ConfigError", "ReturnedInput", "PerDocumentLoop", "Aggregated",
     "TablenumError", "PerPageLoop", "TableDone"}

\* C28: on an input without 'html' column render() makes no other check
\* and its only outcome is the missing-input error, whatever the column
\* specs and the table index are: there is no configuration error, no
\* table-index error and the input is not returned.
C28_NoHtmlCheckFirst ==
    ~table.has_html =>
        /\ pc \notin OtherChecks
        /\ pc # "Idle" =>
            /\ result.message.id = "error.noHtml.error"
            /\ result.message.id \notin ConfigErrorIds \cup {"badParam.tablenum.negative"}
            /\ result.kind \notin {"input", "table", "table+message", "message"}

\* C28 witness: no 'html' column and two column specs, the first without
\* name, the second without selector.
C28_Witness ==
    /\ ~table.has_html /\ params.method = "xpath"
    /\ Len(params.colselectors) = 2
    /\ params.colselectors[1].colname = ""
    /\ params.colselectors[2].colxpath = ""
    /\ pc = "NoHtml"
    /\ result.message.id = "error.noHtml.error"

\* C28 witness: no 'html' column and no column spec.
C28_WitnessEmptyList ==
    /\ ~table.has_html /\ params.method = "xpath"
    /\ params.colselectors = <<>>
    /\ pc = "NoHtml"
    /\ result.kind = "quickfix"

\* C28 witness: no 'html' column and the table index 0.
C28_WitnessTablenum ==
    /\ ~table.has_html /\ params.method = "table"
    /\ params.tablenum = 0
    /\ pc = "NoHtml"
    /\ result.message = Message("error.noHtml.error", "", 0)

\* The messages render() holds: the one it returns, the one of the page at
\* hand and the first warning kept, and the text of each quick fix.
MessageIds ==
    {result.message.id, one_result.message.id, first_warning.id} \cup
    {result.quickFixes[i].text : i \in 1..Len(result.quickFixes)}

\* C29: every placeholder of a message's default template is the name of
\* one of the message's arguments.
C29_PlaceholdersHaveArguments ==
    \A id \in MessageIds : Placeholders(id) \subseteq Arguments(id)

\* C30: migrate_params given what migrate_params returned returns the same
\* contents; and params that have 'method' and do not have
\* 'first_row_is_header' are returned with the contents they were given with.
C30_MigrateParamsIdempotent ==
    /\ migration.pc = "ReturnedAgain" =>
        /\ DOMAIN call.ret = DOMAIN call.arg
        /\ \A k \in DOMAIN call.arg : call.ret[k] = call.arg[k]
    /\ (/\ migration.pc \in {"Returned", "ReturnedAgain"}
        /\ "method" \in DOMAIN migration.given
        /\ "first_row_is_header" \notin DOMAIN migration.given) =>
            LET out == migration.heap[migration.returned]
            IN /\ DOMAIN out = DOMAIN migration.given
               /\ \A k \in DOMAIN out : out[k] = migration.given[k]

\* C30 witness: params of the first version with the defunct key, migrated
\* and migrated again.
C30_Witness ==
    /\ migration.pc = "ReturnedAgain"
    /\ DOMAIN migration.given = {"first_row_is_header", "colselectors"}
    /\ DOMAIN call.arg = {"method", "tablenum", "colselectors"}
    /\ call.ret = call.arg

\* C30 witness: params with the table method, table 2 and no defunct key.
C30_WitnessUnchanged ==
    /\ migration.pc = "ReturnedAgain"
    /\ DOMAIN migration.given = {"method", "tablenum", "colselectors"}
    /\ migration.given["method"] = "table" /\ migration.given["tablenum"] = 2
    /\ call.ret = migration.given

====
